---- MODULE Spec2Model ----
(***************************************************************************)
(* Data-access module of the e-commerce application                        *)
(* (src/express_server/queries.ts).                                        *)
(*                                                                         *)
(* Every exported function sends SQL statements through the one            *)
(* process-wide `sequelize` handle.  Each `await sequelize.query(...)` is  *)
(* a suspension point, so a call is modelled as a small process whose      *)
(* steps are its statements; calls that run at the same time interleave    *)
(* statement by statement on the shared database session.                  *)
(*                                                                         *)
(* The database itself (schema, views, transaction rules of the session)   *)
(* is outside src/; it is modelled from sections 3, 5 and 6 of the         *)
(* specification and the glossary.                                         *)
(***************************************************************************)
EXTENDS Integers, Sequences, FiniteSets, TLC

VARIABLES
  tables,      \* contents of every table as the shared session sees them
  committed,   \* contents of every table as last committed
  tx,          \* transaction state of the shared session
  locks,       \* tables the session's open transaction holds locked
  calls,       \* per slot: the call of the module running (or last run) there
  last,        \* the call that finished most recently
  lastCommit,  \* slot whose COMMIT statement the database accepted last
  nfaults,     \* queries rejected because the connection was lost, so far
  ncalls,      \* calls made so far
  load         \* the callers: calls in flight at once, calls and rejections in all

vars == <<tables, committed, tx, locks, calls, last, lastCommit, nfaults, ncalls, load>>

----------------------------------------------------------------------------
(* Bounds of the model *)

MaxCalls == 2
MaxFaults == 1
SeqMaxCalls == 2
SeqMaxFaults == 2

Procs == {1, 2}

----------------------------------------------------------------------------
(* Text: names are sequences of characters *)

Lower(c) == IF c = "A" THEN "a" ELSE IF c = "B" THEN "b" ELSE c

LowerStr(s) == [i \in 1..Len(s) |-> Lower(s[i])]

RECURSIVE LikeMatch(_, _)
LikeMatch(s, pat) ==
  IF pat = <<>> THEN s = <<>>
  ELSE IF Head(pat) = "%"
       THEN LikeMatch(s, Tail(pat)) \/ (s # <<>> /\ LikeMatch(Tail(s), pat))
  ELSE IF s = <<>> THEN FALSE
  ELSE IF Head(pat) = "_" THEN LikeMatch(Tail(s), Tail(pat))
  ELSE Head(pat) = Head(s) /\ LikeMatch(Tail(s), Tail(pat))

\* `%${searchStr}%`
LikePattern(searchStr) == <<"%">> \o searchStr \o <<"%">>

----------------------------------------------------------------------------
(* The database: schema *)

TableNames == {"users", "sellers", "shops", "products", "orders"}

IdColumn(t) ==
  CASE t = "users" -> "userid"
    [] t = "sellers" -> "sellerid"
    [] t = "shops" -> "shopid"
    [] t = "products" -> "productid"
    [] t = "orders" -> "orderid"

\* sellers.sellerid is supplied by the caller; the other keys are assigned
AssignsId(t) == t # "sellers"

CurrentDate == "CURRENT_DATE"
CurrentTimestamp == "CURRENT_TIMESTAMP"

Max(S) == CHOOSE x \in S : \A y \in S : y <= x

NextId(rows, col) == IF rows = {} THEN 1 ELSE 1 + Max({r[col] : r \in rows})

UniqueOn(rows, col) == \A r1, r2 \in rows : r1[col] = r2[col] => r1 = r2

\* emails unique, keys unique, references point to existing rows
Consistent(T) ==
  /\ UniqueOn(T.users, "userid")
  /\ UniqueOn(T.users, "email")
  /\ UniqueOn(T.sellers, "sellerid")
  /\ UniqueOn(T.shops, "shopid")
  /\ UniqueOn(T.products, "productid")
  /\ UniqueOn(T.orders, "orderid")
  /\ \A s \in T.sellers : \E u \in T.users : u.userid = s.sellerid
  /\ \A s \in T.shops : \E o \in T.sellers : o.sellerid = s.owner
  /\ \A p \in T.products : \E s \in T.shops : s.shopid = p.shopid
  /\ \A o \in T.orders :
       /\ \E u \in T.users : u.userid = o.buyer
       /\ \E p \in T.products : p.shopid = o.shop /\ p.productid = o.product

(* Views *)

UserInfoView(T) == T.users

ShopInfoView(T) ==
  { [shopid |-> s.shopid, shopname |-> s.shopname,
     establishdate |-> s.establishdate, description |-> s.description,
     ownerid |-> s.owner] : s \in T.shops }

ProductInfoView(T) == T.products

OrdersInfoView(T) == T.orders

Relation(T, from) ==
  CASE from = "UserInfoView" -> UserInfoView(T)
    [] from = "ShopInfoView" -> ShopInfoView(T)
    [] from = "ProductInfoView" -> ProductInfoView(T)
    [] from = "OrdersInfoView" -> OrdersInfoView(T)
    [] OTHER -> T[from]

\* the table a relation reads
BaseTable(from) ==
  CASE from = "UserInfoView" -> "users"
    [] from = "ShopInfoView" -> "shops"
    [] from = "ProductInfoView" -> "products"
    [] from = "OrdersInfoView" -> "orders"
    [] OTHER -> from

----------------------------------------------------------------------------
(* The database: statements and the session's transaction rules *)

Begin == [kind |-> "BEGIN"]
Commit == [kind |-> "COMMIT"]
Rollback == [kind |-> "ROLLBACK"]
LockTable(t) == [kind |-> "LOCK", table |-> t]
Insert(t, values) == [kind |-> "INSERT", table |-> t, values |-> values]
Update(t, set, where) == [kind |-> "UPDATE", table |-> t, set |-> set, where |-> where]
Select(from, where) == [kind |-> "SELECT", table |-> from, where |-> where, like |-> <<>>]
SelectLike(from, where, col, pat) ==
  [kind |-> "SELECT", table |-> from, where |-> where, like |-> <<col, pat>>]
SelectExists(from, where) == [kind |-> "EXISTS", table |-> from, where |-> where]

NoWhere == <<>>

Matches(row, where) == \A c \in DOMAIN where : row[c] = where[c]

\* LOWER(col) LIKE pattern
MatchesLike(row, like) ==
  like = <<>> \/ LikeMatch(LowerStr(row[like[1]]), like[2])

Session == [tables |-> tables, committed |-> committed, tx |-> tx, locks |-> locks]

Reply(S, ok, rows, n) ==
  [ok |-> ok, tables |-> S.tables, committed |-> S.committed, tx |-> S.tx,
   locks |-> S.locks, rows |-> rows, n |-> n]

\* the statement is refused and, inside a transaction block, aborts the block
Refuse(S) ==
  Reply([S EXCEPT !.tx = IF S.tx = "intx" THEN "aborted" ELSE S.tx], FALSE, {}, 0)

\* the tables after a data statement, outside a block also what is committed
Store(S, T, rows, n) ==
  IF ~Consistent(T) THEN Refuse(S)
  ELSE Reply([S EXCEPT !.tables = T,
                       !.committed = IF S.tx = "idle" THEN T ELSE S.committed],
             TRUE, rows, n)

EndBlock(S, T) ==
  Reply([S EXCEPT !.tables = T, !.committed = T, !.tx = "idle", !.locks = {}],
        TRUE, {}, 0)

InsertRow(S, t, values) ==
  LET id == NextId(S.tables[t], IdColumn(t))
      row == IF AssignsId(t)
             THEN [c \in DOMAIN values \cup {IdColumn(t)} |->
                     IF c = IdColumn(t) THEN id ELSE values[c]]
             ELSE values
  IN  Store(S, [S.tables EXCEPT ![t] = @ \cup {row}], {}, 1)

UpdateRows(S, t, set, where) ==
  LET hit == {r \in S.tables[t] : Matches(r, where)}
      new == {[c \in DOMAIN r |-> IF c \in DOMAIN set THEN set[c] ELSE r[c]] : r \in hit}
  IN  Store(S, [S.tables EXCEPT ![t] = (@ \ hit) \cup new], {}, Cardinality(hit))

Execute(stmt, S) ==
  CASE stmt.kind = "BEGIN" ->
         IF S.tx = "aborted" THEN Refuse(S)
         ELSE Reply([S EXCEPT !.tx = "intx"], TRUE, {}, 0)
    [] stmt.kind = "COMMIT" ->
         IF S.tx = "intx" THEN EndBlock(S, S.tables) ELSE EndBlock(S, S.committed)
    [] stmt.kind = "ROLLBACK" -> EndBlock(S, S.committed)
    [] stmt.kind = "LOCK" ->
         IF S.tx = "intx"
         THEN Reply([S EXCEPT !.locks = @ \cup {stmt.table}], TRUE, {}, 0)
         ELSE Refuse(S)
    [] S.tx = "aborted" -> Refuse(S)
    [] stmt.kind = "INSERT" -> InsertRow(S, stmt.table, stmt.values)
    [] stmt.kind = "UPDATE" -> UpdateRows(S, stmt.table, stmt.set, stmt.where)
    [] stmt.kind = "SELECT" ->
         LET rows == {r \in Relation(S.tables, stmt.table) :
                        Matches(r, stmt.where) /\ MatchesLike(r, stmt.like)}
         IN  Reply(S, TRUE, rows, Cardinality(rows))
    [] stmt.kind = "EXISTS" ->
         Reply(S, TRUE,
               {[user_exists |-> \E r \in Relation(S.tables, stmt.table) :
                                   Matches(r, stmt.where)]}, 1)

\* the connection is lost before the statement is run: the query is rejected,
\* the server ends the session's open block and the handle reconnects
Rejected(S) ==
  Reply([S EXCEPT !.tables = S.committed, !.tx = "idle", !.locks = {}], FALSE, {}, 0)

----------------------------------------------------------------------------
(* Calls of the module *)

NoResult == [kind |-> "none", rows |-> {}, n |-> 0]
Undefined == [kind |-> "undefined", rows |-> {}, n |-> 0]
Value(rows, n) == [kind |-> "value", rows |-> rows, n |-> n]

NoCall == [op |-> "none", args |-> <<>>, kind |-> "none", pre |-> <<>>]

Idle ==
  [op |-> "none", args |-> <<>>, phase |-> "idle", pc |-> 0, issued |-> <<>>,
   held |-> NoResult, result |-> NoResult, pre |-> <<>>, after |-> NoCall]

InFlight(c) == c.phase \in {"try", "catch"}
Finished(c) == c.phase \in {"returned", "threw"}

Summary(c) ==
  [op |-> c.op, args |-> c.args,
   kind |-> IF c.phase = "threw" THEN "threw" ELSE c.result.kind, pre |-> c.pre]

\* a caller invokes `op` with `args`; the call takes the first free slot
Invoke(p, op, args) ==
  /\ ncalls < load.calls
  /\ ~InFlight(calls[p])
  /\ \A q \in Procs : q < p => InFlight(calls[q])
  /\ Cardinality({q \in Procs : InFlight(calls[q])}) < load.width
  /\ calls' = [calls EXCEPT ![p] =
       [op |-> op, args |-> args, phase |-> "try", pc |-> 1, issued |-> <<>>,
        held |-> NoResult, result |-> NoResult, pre |-> tables, after |-> last]]
  /\ ncalls' = ncalls + 1
  /\ UNCHANGED <<tables, committed, tx, locks, last, lastCommit, nfaults, load>>

\* what `await sequelize.query(stmt)` can come back with
Outcomes(stmt) ==
  {[reply |-> Execute(stmt, Session), fault |-> FALSE]}
    \cup (IF nfaults < load.faults
          THEN {[reply |-> Rejected(Session), fault |-> TRUE]} ELSE {})

Issued(stmt, o) ==
  [kind |-> stmt.kind,
   table |-> IF stmt.kind \in {"BEGIN", "COMMIT", "ROLLBACK"} THEN "" ELSE BaseTable(stmt.table),
   outcome |-> IF o.reply.ok THEN "ok" ELSE IF o.fault THEN "fault" ELSE "error"]

\* one statement goes through the shared handle: its effect on the session
Send(p, stmt, o, call) ==
  /\ tables' = o.reply.tables
  /\ committed' = o.reply.committed
  /\ tx' = o.reply.tx
  /\ locks' = o.reply.locks
  /\ nfaults' = IF o.fault THEN nfaults + 1 ELSE nfaults
  /\ lastCommit' = IF stmt.kind = "COMMIT" /\ o.reply.ok THEN p ELSE lastCommit
  /\ calls' = [calls EXCEPT ![p] = call]
  /\ last' = IF Finished(call) THEN Summary(call) ELSE last
  /\ UNCHANGED <<ncalls, load>>

\* a read: one awaited query, its rows returned, its error propagated
ReadHandler(p, stmt) ==
  /\ calls[p].phase = "try"
  /\ \E o \in Outcomes(stmt) :
       LET c == calls[p]
           c1 == [c EXCEPT !.issued = Append(@, Issued(stmt, o)), !.pc = @ + 1]
       IN  Send(p, stmt, o,
                IF o.reply.ok
                THEN [c1 EXCEPT !.phase = "returned",
                                !.result = Value(o.reply.rows, o.reply.n)]
                ELSE [c1 EXCEPT !.phase = "threw"])

\* a write: the awaited queries of the try block in order, the first failure
\* jumps to the catch block, which awaits ROLLBACK and returns nothing
WriteHandler(p, stmts) ==
  /\ InFlight(calls[p])
  /\ LET c == calls[p]
         stmt == IF c.phase = "try" THEN stmts[c.pc] ELSE Rollback
     IN  \E o \in Outcomes(stmt) :
           LET c1 == [c EXCEPT !.issued = Append(@, Issued(stmt, o)), !.pc = @ + 1,
                               !.held = IF o.reply.ok /\ stmt.kind \in {"INSERT", "UPDATE"}
                                        THEN Value(o.reply.rows, o.reply.n) ELSE @]
           IN  Send(p, stmt, o,
                    CASE c.phase = "catch" /\ o.reply.ok ->
                           [c1 EXCEPT !.phase = "returned", !.result = Undefined]
                      [] c.phase = "catch" -> [c1 EXCEPT !.phase = "threw"]
                      [] ~o.reply.ok -> [c1 EXCEPT !.phase = "catch"]
                      [] c.pc = Len(stmts) ->
                           [c1 EXCEPT !.phase = "returned", !.result = c1.held]
                      [] OTHER -> c1)

----------------------------------------------------------------------------
(* What the callers pass in *)

MaxQuantity == 2

Ids == {1, 2}
Emails == {"a@x", "b@x"}
Passwords == {"pw", "pw2"}
Quantities == 0..MaxQuantity

SignUpInputs ==
  {[email |-> e, firstname |-> "Bob", lastname |-> "Ray", dob |-> "1999-09-09",
    password |-> "pw2"] : e \in Emails}

CreateShopInputs ==
  {[shopname |-> <<"b">>, description |-> "new", ownerid |-> o] : o \in Ids}

CreateProductInputs ==
  {[shopid |-> sh, price |-> 3, name |-> <<"B">>, quantity |-> 0, description |-> "new"] :
     sh \in Ids}

CreateOrderInputs ==
  {[userid |-> 1, shopid |-> 1, productid |-> pr, quantity |-> 1] : pr \in Ids}

SetQuantityInputs ==
  {[shopid |-> 1, productid |-> pr, newQuantity |-> n] : pr \in Ids, n \in Quantities}

UpdateUserInputs ==
  {[userid |-> u, firstname |-> "Ann", lastname |-> "Poe", email |-> "b@x",
    dob |-> "2000-01-01", password |-> "pw"] : u \in Ids}

SearchStrings == {<<>>, <<"a">>, <<"A">>, <<"b">>, <<"A", "b">>, <<"_">>}

----------------------------------------------------------------------------
(* The exported functions *)

getAllShopsInfo_query == Select("ShopInfoView", NoWhere)

getAllShopsInfo(p) ==
  \/ Invoke(p, "getAllShopsInfo", <<>>)
  \/ /\ calls[p].op = "getAllShopsInfo"
     /\ ReadHandler(p, getAllShopsInfo_query)

getAllProductsOfAShop_query(ShopID) == Select("ProductInfoView", [shopid |-> ShopID])

getAllProductsOfAShop(p) ==
  \/ \E ShopID \in Ids : Invoke(p, "getAllProductsOfAShop", ShopID)
  \/ /\ calls[p].op = "getAllProductsOfAShop"
     /\ ReadHandler(p, getAllProductsOfAShop_query(calls[p].args))

getShopInfo_query(ShopID) == Select("ShopInfoView", [shopid |-> ShopID])

getShopInfo(p) ==
  \/ \E ShopID \in Ids : Invoke(p, "getShopInfo", ShopID)
  \/ /\ calls[p].op = "getShopInfo"
     /\ ReadHandler(p, getShopInfo_query(calls[p].args))

checkIfUserExists_query(email) == SelectExists("users", [email |-> email])

checkIfUserExists(p) ==
  \/ \E email \in Emails : Invoke(p, "checkIfUserExists", email)
  \/ /\ calls[p].op = "checkIfUserExists"
     /\ ReadHandler(p, checkIfUserExists_query(calls[p].args))

\* variants with a slip in them, to see that the properties notice
createUser_stmts_NoBegin(userInfo) ==
  << Insert("users", [email |-> userInfo.email, firstname |-> userInfo.firstname,
                      lastname |-> userInfo.lastname, dob |-> userInfo.dob,
                      password |-> userInfo.password]),
     Commit >>

createUser_stmts_NamesSwapped(userInfo) ==
  << Begin,
     Insert("users", [email |-> userInfo.email, firstname |-> userInfo.lastname,
                      lastname |-> userInfo.firstname, dob |-> userInfo.dob,
                      password |-> userInfo.password]),
     Commit >>

createUser_stmts(userInfo) ==
  << Begin,
     Insert("users", [email |-> userInfo.email, firstname |-> userInfo.firstname,
                      lastname |-> userInfo.lastname, dob |-> userInfo.dob,
                      password |-> userInfo.password]),
     Commit >>

createUser(p) ==
  \/ \E userInfo \in SignUpInputs : Invoke(p, "createUser", userInfo)
  \/ /\ calls[p].op = "createUser"
     /\ WriteHandler(p, createUser_stmts(calls[p].args))

getUserInfoByEmail_query(email) == Select("UserInfoView", [email |-> email])

getUserInfoByEmail(p) ==
  \/ \E email \in Emails : Invoke(p, "getUserInfoByEmail", email)
  \/ /\ calls[p].op = "getUserInfoByEmail"
     /\ ReadHandler(p, getUserInfoByEmail_query(calls[p].args))

getUserInfoByID_query(userid) == Select("UserInfoView", [userid |-> userid])

getUserInfoByID(p) ==
  \/ \E userid \in Ids : Invoke(p, "getUserInfoByID", userid)
  \/ /\ calls[p].op = "getUserInfoByID"
     /\ ReadHandler(p, getUserInfoByID_query(calls[p].args))

getUserByEmailAndPassword_query(email, password) ==
  Select("UserInfoView", [email |-> email, password |-> password])

getUserByEmailAndPassword(p) ==
  \/ \E email \in Emails, password \in Passwords :
       Invoke(p, "getUserByEmailAndPassword", [email |-> email, password |-> password])
  \/ /\ calls[p].op = "getUserByEmailAndPassword"
     /\ ReadHandler(p, getUserByEmailAndPassword_query(calls[p].args.email,
                                                       calls[p].args.password))

getShopsOwnedByUser_query(userid) == Select("ShopInfoView", [ownerid |-> userid])

getShopsOwnedByUser(p) ==
  \/ \E userid \in Ids : Invoke(p, "getShopsOwnedByUser", userid)
  \/ /\ calls[p].op = "getShopsOwnedByUser"
     /\ ReadHandler(p, getShopsOwnedByUser_query(calls[p].args))

createShop_stmts(shopInfo) ==
  << Begin,
     Insert("shops", [shopname |-> shopInfo.shopname, establishdate |-> CurrentDate,
                      description |-> shopInfo.description, owner |-> shopInfo.ownerid]),
     Commit >>

createShop(p) ==
  \/ \E shopInfo \in CreateShopInputs : Invoke(p, "createShop", shopInfo)
  \/ /\ calls[p].op = "createShop"
     /\ WriteHandler(p, createShop_stmts(calls[p].args))

makeSeller_stmts(userID) == << Begin, Insert("sellers", [sellerid |-> userID]), Commit >>

makeSeller(p) ==
  \/ \E userID \in Ids : Invoke(p, "makeSeller", userID)
  \/ /\ calls[p].op = "makeSeller"
     /\ WriteHandler(p, makeSeller_stmts(calls[p].args))

createProduct_stmts(productInfo) ==
  << Begin,
     Insert("products", [shopid |-> productInfo.shopid, price |-> productInfo.price,
                         name |-> productInfo.name, quantity |-> productInfo.quantity,
                         description |-> productInfo.description]),
     Commit >>

createProduct(p) ==
  \/ \E productInfo \in CreateProductInputs : Invoke(p, "createProduct", productInfo)
  \/ /\ calls[p].op = "createProduct"
     /\ WriteHandler(p, createProduct_stmts(calls[p].args))

getUsersOrders_query(userid) == Select("OrdersInfoView", [buyer |-> userid])

getUsersOrders(p) ==
  \/ \E userid \in Ids : Invoke(p, "getUsersOrders", userid)
  \/ /\ calls[p].op = "getUsersOrders"
     /\ ReadHandler(p, getUsersOrders_query(calls[p].args))

createOrder_stmts(createOrderInfo) ==
  << Begin,
     Insert("orders", [buyer |-> createOrderInfo.userid, shop |-> createOrderInfo.shopid,
                       product |-> createOrderInfo.productid,
                       quantity |-> createOrderInfo.quantity,
                       ordertime |-> CurrentTimestamp]),
     Commit >>

createOrder(p) ==
  \/ \E createOrderInfo \in CreateOrderInputs : Invoke(p, "createOrder", createOrderInfo)
  \/ /\ calls[p].op = "createOrder"
     /\ WriteHandler(p, createOrder_stmts(calls[p].args))

setProductQuantity_stmts_ArgsSwapped(shopid, productid, newQuantity) ==
  << Begin,
     LockTable("products"),
     Update("products", [quantity |-> shopid],
            [shopid |-> newQuantity, productid |-> productid]),
     Commit >>

setProductQuantity_stmts_LockLate(shopid, productid, newQuantity) ==
  << Begin,
     Update("products", [quantity |-> newQuantity],
            [shopid |-> shopid, productid |-> productid]),
     LockTable("products"),
     Commit >>

setProductQuantity_stmts(shopid, productid, newQuantity) ==
  << Begin,
     LockTable("products"),
     Update("products", [quantity |-> newQuantity],
            [shopid |-> shopid, productid |-> productid]),
     Commit >>

setProductQuantity(p) ==
  \/ \E a \in SetQuantityInputs : Invoke(p, "setProductQuantity", a)
  \/ /\ calls[p].op = "setProductQuantity"
     /\ WriteHandler(p, setProductQuantity_stmts(calls[p].args.shopid,
                                                 calls[p].args.productid,
                                                 calls[p].args.newQuantity))

getProduct_query(shopid, productid) ==
  Select("products", [shopid |-> shopid, productid |-> productid])

getProduct(p) ==
  \/ \E shopid \in {1}, productid \in Ids :
       Invoke(p, "getProduct", [shopid |-> shopid, productid |-> productid])
  \/ /\ calls[p].op = "getProduct"
     /\ ReadHandler(p, getProduct_query(calls[p].args.shopid, calls[p].args.productid))

getProductsOfShopLike_query(shopid, searchStr) ==
  SelectLike("ProductInfoView", [shopid |-> shopid], "name", LikePattern(searchStr))

getProductsOfShopLike(p) ==
  \/ \E shopid \in {1}, searchStr \in SearchStrings :
       Invoke(p, "getProductsOfShopLike", [shopid |-> shopid, searchStr |-> searchStr])
  \/ /\ calls[p].op = "getProductsOfShopLike"
     /\ ReadHandler(p, getProductsOfShopLike_query(calls[p].args.shopid,
                                                   calls[p].args.searchStr))

getShopsLike_query(searchStr) ==
  SelectLike("ShopInfoView", NoWhere, "shopname", LikePattern(searchStr))

getShopsLike(p) ==
  \/ \E searchStr \in SearchStrings : Invoke(p, "getShopsLike", searchStr)
  \/ /\ calls[p].op = "getShopsLike"
     /\ ReadHandler(p, getShopsLike_query(calls[p].args))

updateUserData_stmts_NoLock(newUserInfo) ==
  << Begin,
     Update("users",
            [userid |-> newUserInfo.userid, firstname |-> newUserInfo.firstname,
             lastname |-> newUserInfo.lastname, email |-> newUserInfo.email,
             dob |-> newUserInfo.dob, password |-> newUserInfo.password],
            [userid |-> newUserInfo.userid]),
     Commit >>

updateUserData_stmts(newUserInfo) ==
  << Begin,
     LockTable("users"),
     Update("users",
            [userid |-> newUserInfo.userid, firstname |-> newUserInfo.firstname,
             lastname |-> newUserInfo.lastname, email |-> newUserInfo.email,
             dob |-> newUserInfo.dob, password |-> newUserInfo.password],
            [userid |-> newUserInfo.userid]),
     Commit >>

updateUserData(p) ==
  \/ \E newUserInfo \in UpdateUserInputs : Invoke(p, "updateUserData", newUserInfo)
  \/ /\ calls[p].op = "updateUserData"
     /\ WriteHandler(p, updateUserData_stmts(calls[p].args))

Reads ==
  {"getAllShopsInfo", "getAllProductsOfAShop", "getShopInfo", "checkIfUserExists",
   "getUserInfoByEmail", "getUserInfoByID", "getUserByEmailAndPassword",
   "getShopsOwnedByUser", "getUsersOrders", "getProduct", "getProductsOfShopLike",
   "getShopsLike"}

Writes ==
  {"createUser", "createShop", "makeSeller", "createProduct", "createOrder",
   "setProductQuantity", "updateUserData"}

----------------------------------------------------------------------------
(* The system *)

SeedTables ==
  [users |-> {[userid |-> 1, email |-> "a@x", firstname |-> "Ann", lastname |-> "Lee",
               dob |-> "2000-01-01", password |-> "pw"]},
   sellers |-> {[sellerid |-> 1]},
   shops |-> {[shopid |-> 1, shopname |-> <<"A", "b">>, establishdate |-> "2020-02-02",
               description |-> "old", owner |-> 1]},
   products |-> {[productid |-> 1, shopid |-> 1, price |-> 5, name |-> <<"a", "B">>,
                  quantity |-> 1, description |-> "old"]},
   orders |-> {}]

Start(l) ==
  /\ tables = SeedTables
  /\ committed = SeedTables
  /\ tx = "idle"
  /\ locks = {}
  /\ calls = [p \in Procs |-> Idle]
  /\ last = NoCall
  /\ lastCommit = 0
  /\ nfaults = 0
  /\ ncalls = 0
  /\ load = l

\* requests are served as they come in, two at a time
Init == Start([width |-> 2, calls |-> MaxCalls, faults |-> MaxFaults])

\* the same, and the connection never drops
InitReliable == Start([width |-> 2, calls |-> MaxCalls, faults |-> 0])

\* every call is awaited before the next is made
InitSeq == Start([width |-> 1, calls |-> SeqMaxCalls, faults |-> SeqMaxFaults])

Next ==
  \E p \in Procs :
    \/ getAllShopsInfo(p)
    \/ getAllProductsOfAShop(p)
    \/ getShopInfo(p)
    \/ checkIfUserExists(p)
    \/ createUser(p)
    \/ getUserInfoByEmail(p)
    \/ getUserInfoByID(p)
    \/ getUserByEmailAndPassword(p)
    \/ getShopsOwnedByUser(p)
    \/ createShop(p)
    \/ makeSeller(p)
    \/ createProduct(p)
    \/ getUsersOrders(p)
    \/ createOrder(p)
    \/ setProductQuantity(p)
    \/ getProduct(p)
    \/ getProductsOfShopLike(p)
    \/ getShopsLike(p)
    \/ updateUserData(p)

Spec == Init /\ [][Next]_vars

SpecReliable == InitReliable /\ [][Next]_vars

SpecSeq == InitSeq /\ [][Next]_vars

----------------------------------------------------------------------------
(* Properties *)

Locking == {"setProductQuantity", "updateUserData"}

LockedTable(op) == IF op = "setProductQuantity" THEN "products" ELSE "users"

Failed(c) == \E i \in 1..Len(c.issued) : c.issued[i].outcome # "ok"

Succeeded(c) == c.phase = "returned" /\ c.result.kind = "value"

SameProduct(a, b) == a.shopid = b.shopid /\ a.productid = b.productid

ProductRows(T, key) == {r \in T.products : SameProduct(r, key)}

\* C1: two setProductQuantity calls on the same product that ran at the same
\* time and both completed leave the quantity written by the call whose COMMIT
\* came last.
C1_ConcurrentUpdatesSerialize ==
  \A p, q \in Procs :
    ( /\ p # q
      /\ calls[p].op = "setProductQuantity" /\ calls[q].op = "setProductQuantity"
      /\ Succeeded(calls[p]) /\ Succeeded(calls[q])
      /\ SameProduct(calls[p].args, calls[q].args)
      /\ lastCommit = p )
    => \A r \in ProductRows(committed, calls[p].args) :
         r.quantity = calls[p].args.newQuantity

\* C2: a write that failed and returned leaves every table as it was when the
\* write started, as the session reads it and as committed.
C2_FailedWriteLeavesTablesUnchanged ==
  \A p \in Procs :
    ( /\ calls[p].op \in Writes
      /\ calls[p].phase = "returned"
      /\ Failed(calls[p]) )
    => tables = calls[p].pre /\ committed = calls[p].pre

C2_Witness ==
  \E p \in Procs :
    /\ calls[p].op = "createUser"
    /\ calls[p].phase = "returned"
    /\ Len(calls[p].issued) = 3
    /\ calls[p].issued[2].kind = "INSERT" /\ calls[p].issued[2].outcome = "error"

\* C3: a write never lets an error out: whichever statement failed, it has
\* issued ROLLBACK and returned undefined.
C3_WriteErrorsAreSuppressed ==
  \A p \in Procs :
    calls[p].op \in Writes =>
      /\ calls[p].phase # "threw"
      /\ (calls[p].phase = "returned" /\ Failed(calls[p])) =>
           /\ calls[p].result = Undefined
           /\ calls[p].issued[Len(calls[p].issued)].kind = "ROLLBACK"

ContainsIgnoreCase(name, S) ==
  \E i \in 1..(Len(name) + 1) :
    /\ i + Len(S) - 1 <= Len(name)
    /\ LowerStr(SubSeq(name, i, i + Len(S) - 1)) = LowerStr(S)

\* C5: a search returns exactly the rows whose name contains the search string,
\* ignoring case: the shops for getShopsLike, the shop's products for
\* getProductsOfShopLike.
C5_SearchIsCaseInsensitiveContainment ==
  \A p \in Procs :
    LET c == calls[p] IN
    /\ (c.op = "getShopsLike" /\ c.phase = "returned") =>
         c.result.rows = {v \in ShopInfoView(tables) : ContainsIgnoreCase(v.shopname, c.args)}
    /\ (c.op = "getProductsOfShopLike" /\ c.phase = "returned") =>
         c.result.rows = {v \in ProductInfoView(tables) :
                            /\ v.shopid = c.args.shopid
                            /\ ContainsIgnoreCase(v.name, c.args.searchStr)}

\* C6: createUser with an email no user has completes, and right after it
\* getUserInfoByEmail on that email returns exactly one record, with the email,
\* first name, last name and date of birth of the input, and checkIfUserExists
\* on that email returns true.
C6_CreateThenFetchUser ==
  \A p \in Procs :
    LET c == calls[p]
        made == c.after
    IN  /\ ( /\ c.op = "createUser" /\ Finished(c)
             /\ ~\E u \in c.pre.users : u.email = c.args.email
             /\ \A i \in 1..Len(c.issued) : c.issued[i].outcome # "fault" )
           => Succeeded(c)
        /\ ( /\ c.op = "getUserInfoByEmail" /\ c.phase = "returned"
             /\ made.op = "createUser" /\ made.kind = "value"
             /\ c.args = made.args.email )
           => /\ Cardinality(c.result.rows) = 1
              /\ \A r \in c.result.rows :
                   /\ r.email = made.args.email
                   /\ r.firstname = made.args.firstname
                   /\ r.lastname = made.args.lastname
                   /\ r.dob = made.args.dob
        /\ ( /\ c.op = "checkIfUserExists" /\ c.phase = "returned"
             /\ made.op = "createUser" /\ made.kind = "value"
             /\ c.args = made.args.email )
           => c.result.rows = {[user_exists |-> TRUE]}

C6_Witness ==
  \E p \in Procs :
    /\ calls[p].op = "getUserInfoByEmail" /\ calls[p].phase = "returned"
    /\ calls[p].after.op = "createUser" /\ calls[p].after.kind = "value"
    /\ calls[p].args = calls[p].after.args.email

\* C7 as stated: a read sends exactly one statement, a write at most three.
C7_AtMostThreeStatements ==
  \A p \in Procs :
    /\ calls[p].op \in Reads =>
         /\ Len(calls[p].issued) <= 1
         /\ Finished(calls[p]) => Len(calls[p].issued) = 1
    /\ calls[p].op \in Writes => Len(calls[p].issued) <= 3

\* C7 as amended: a read sends exactly one statement; a write that succeeds
\* sends three statements, four if it locks a table (setProductQuantity,
\* updateUserData); a write that fails sends ROLLBACK too, so at most four
\* statements, five if it locks a table.
C7_StatementCounts ==
  \A p \in Procs :
    LET c == calls[p]
        lock == IF c.op \in Locking THEN 1 ELSE 0
    IN  /\ c.op \in Reads =>
             /\ Len(c.issued) <= 1
             /\ Finished(c) => Len(c.issued) = 1
        /\ c.op \in Writes =>
             /\ Len(c.issued) <= 4 + lock
             /\ Succeeded(c) => Len(c.issued) = 3 + lock
             /\ (Finished(c) /\ ~Succeeded(c)) => Len(c.issued) >= 2

C7_Witness ==
  \E p \in Procs :
    /\ calls[p].op = "setProductQuantity"
    /\ calls[p].phase = "returned"
    /\ Len(calls[p].issued) = 5

\* --- the statements a call of `op` may issue in its try block, in order
TryOrder(op) ==
  IF op \in Locking THEN <<"BEGIN", "LOCK", "UPDATE", "COMMIT">>
  ELSE <<"BEGIN", "INSERT", "COMMIT">>

WrittenTable(op) ==
  CASE op = "createUser" -> "users"
    [] op = "createShop" -> "shops"
    [] op = "makeSeller" -> "sellers"
    [] op = "createProduct" -> "products"
    [] op = "createOrder" -> "orders"
    [] op \in Locking -> LockedTable(op)

HoldsLock(c, t) ==
  /\ InFlight(c)
  /\ \E i \in 1..Len(c.issued) :
       /\ c.issued[i].kind = "LOCK" /\ c.issued[i].table = t
       /\ \A j \in i..Len(c.issued) :
            c.issued[j].outcome = "ok" /\ c.issued[j].kind \notin {"COMMIT", "ROLLBACK"}

\* C8: while a call holds the table lock it took (from its LOCK until its COMMIT
\* or ROLLBACK) no statement of another call reads or changes that table, and
\* the lock is released when the call returns.
C8_LockExcludesOtherCalls ==
  [][ \A p, q \in Procs :
        ( /\ p # q
          /\ calls[p].op \in Locking
          /\ HoldsLock(calls[p], LockedTable(calls[p].op))
          /\ LockedTable(calls[p].op) \in locks )
        => /\ ( Len(calls'[q].issued) = Len(calls[q].issued) + 1 )
                => LET e == calls'[q].issued[Len(calls'[q].issued)]
                   IN  ~(e.outcome = "ok" /\ e.table = LockedTable(calls[p].op))
           /\ calls'[p].phase = "returned" => LockedTable(calls[p].op) \notin locks'
    ]_vars

\* C9: a write issues BEGIN, then (setProductQuantity and updateUserData only)
\* LOCK on its table, then its one INSERT or UPDATE, then COMMIT, each only
\* after the one before succeeded; ROLLBACK comes only after one of them
\* failed, and nothing comes after a COMMIT that succeeded.
C9_StatementOrder ==
  \A p \in Procs :
    LET c == calls[p]
        n == Len(c.issued)
        e == TryOrder(c.op)
        t == IF n > 0 /\ c.issued[n].kind = "ROLLBACK" THEN n - 1 ELSE n
    IN  c.op \in Writes =>
          /\ t <= Len(e)
          /\ \A i \in 1..t : c.issued[i].kind = e[i]
          /\ \A i \in 1..t :
               c.issued[i].kind \in {"LOCK", "INSERT", "UPDATE"} =>
                 c.issued[i].table = WrittenTable(c.op)
          /\ \A i \in 1..(t - 1) : c.issued[i].outcome = "ok"
          /\ n > t => (t >= 1 /\ c.issued[t].outcome # "ok")
          /\ (t >= 1 /\ c.issued[t].outcome # "ok") => (n > t \/ c.phase = "catch")
          /\ (t = Len(e) /\ c.issued[t].outcome = "ok") => (n = t /\ Succeeded(c))

C9_Witness ==
  \E p \in Procs :
    LET c == calls[p] IN
    /\ c.op = "updateUserData"
    /\ Len(c.issued) = 4
    /\ c.issued[3].kind = "UPDATE" /\ c.issued[3].outcome = "error"
    /\ c.issued[4].kind = "ROLLBACK"

\* --- what a write that went through leaves in a table
Persisted(c, T) ==
  CASE c.op = "createUser" ->
         \E u \in T.users : u.email = c.args.email /\ u.firstname = c.args.firstname
    [] c.op = "createShop" ->
         \E sh \in T.shops : sh.shopname = c.args.shopname /\ sh.owner = c.args.ownerid
    [] c.op = "makeSeller" -> \E sl \in T.sellers : sl.sellerid = c.args
    [] c.op = "createProduct" ->
         \E pr \in T.products : pr.shopid = c.args.shopid /\ pr.name = c.args.name
    [] c.op = "createOrder" ->
         \E o \in T.orders : o.buyer = c.args.userid /\ o.product = c.args.productid
    [] c.op = "setProductQuantity" ->
         c.result.n > 0 =>
           \E pr \in ProductRows(T, c.args) : pr.quantity = c.args.newQuantity
    [] c.op = "updateUserData" ->
         c.result.n > 0 =>
           \E u \in T.users : u.userid = c.args.userid /\ u.lastname = c.args.lastname

\* C10: when a write returns a defined result, what it wrote is committed.
C10_ReturnedWriteIsCommitted ==
  [][ \A p \in Procs :
        ( /\ calls'[p].op \in Writes
          /\ ~Finished(calls[p])
          /\ Succeeded(calls'[p]) )
        => Persisted(calls'[p], committed')
    ]_vars

====
